---- MODULE Spec2Model ----
(***************************************************************************)
(* lol-api-proxy: the two serverless handlers                              *)
(*   api/summoner/[...params].js   (Identity Flow)                         *)
(*   api/rank/[puuid].js           (Rank Flow)                             *)
(* One request is followed from the handler's entry, over each `await` of  *)
(* an upstream fetch, to the response it sends.  Strings the code only     *)
(* passes around are TLA+ strings; the two path segments the code          *)
(* percent-decodes are sequences of characters.                            *)
(***************************************************************************)
EXTENDS Integers, Sequences, FiniteSets, TLC

VARIABLES pc, flow, req, env, locals, calls, responses, unhandled

vars == <<pc, flow, req, env, locals, calls, responses, unhandled>>

(***************************************************************************)
(* Bounds of the model.                                                    *)
(***************************************************************************)
\* longest req.query.params array a request carries
MaxParams == 2
\* longest list of league entries the upstream returns
MaxEntries == 3

(***************************************************************************)
(* JavaScript values.                                                      *)
(***************************************************************************)
\* `undefined`: a query parameter, environment variable or property that is
\* not there
Undefined == "<undefined>"
\* what a property read finds on Object.prototype when the object literal has
\* no own property of that name (a function, or Object.prototype itself)
Inherited == "<Object.prototype member>"
\* Math.round(0 / 0): IEEE NaN, encoded outside the range of win rates
NaN == -1
\* the JSON null of summary.highestTier
Null == "<null>"

\* names every object literal answers through its prototype chain
ObjectPrototypeMembers ==
    {"constructor", "toString", "toLocaleString", "valueOf", "hasOwnProperty",
     "isPrototypeOf", "propertyIsEnumerable", "__proto__", "__defineGetter__",
     "__defineSetter__", "__lookupGetter__", "__lookupSetter__"}

\* obj[key] on an object literal whose own properties are the function `table`
Lookup(table, key) ==
    IF key \in DOMAIN table THEN table[key]
    ELSE IF key \in ObjectPrototypeMembers THEN Inherited
    ELSE Undefined

\* obj.name on a parsed JSON object: undefined when the property is missing
Prop(obj, name) == IF name \in DOMAIN obj THEN obj[name] ELSE Undefined

\* Truthy with a fault: a test against undefined only, which lets '' through
Truthy_OnlyUndefined(v) == v # Undefined

\* JavaScript truthiness of a string-or-undefined value: !v is true for
\* undefined and for the empty string
Truthy(v) == v \notin {Undefined, ""}

\* v || d
OrDefault(v, d) == IF Truthy(v) THEN v ELSE d

\* ResponseOk with a fault: only 404 counts as a failure
ResponseOk_Not404(status) == status # 404

\* Response.ok of fetch
ResponseOk(status) == status >= 200 /\ status <= 299

(***************************************************************************)
(* The fixed tables.                                                       *)
(***************************************************************************)
regionEndpoints ==
    [k \in {"americas", "asia", "europe", "sea"} |->
        CASE k = "americas" -> "americas.api.riotgames.com"
          [] k = "asia"     -> "asia.api.riotgames.com"
          [] k = "europe"   -> "europe.api.riotgames.com"
          [] k = "sea"      -> "sea.api.riotgames.com"]

serverEndpoints ==
    [k \in {"kr", "jp1", "na1", "br1", "lan", "las", "oc1", "euw1", "eun1",
            "tr1", "ru"} |->
        CASE k = "kr"   -> "kr.api.riotgames.com"
          [] k = "jp1"  -> "jp1.api.riotgames.com"
          [] k = "na1"  -> "na1.api.riotgames.com"
          [] k = "br1"  -> "br1.api.riotgames.com"
          [] k = "lan"  -> "lan.api.riotgames.com"
          [] k = "las"  -> "las.api.riotgames.com"
          [] k = "oc1"  -> "oc1.api.riotgames.com"
          [] k = "euw1" -> "euw1.api.riotgames.com"
          [] k = "eun1" -> "eun1.api.riotgames.com"
          [] k = "tr1"  -> "tr1.api.riotgames.com"
          [] k = "ru"   -> "ru.api.riotgames.com"]

tierValues ==
    [t \in {"IRON", "BRONZE", "SILVER", "GOLD", "PLATINUM", "EMERALD",
            "DIAMOND", "MASTER", "GRANDMASTER", "CHALLENGER"} |->
        CASE t = "IRON"        -> 1
          [] t = "BRONZE"      -> 2
          [] t = "SILVER"      -> 3
          [] t = "GOLD"        -> 4
          [] t = "PLATINUM"    -> 5
          [] t = "EMERALD"     -> 6
          [] t = "DIAMOND"     -> 7
          [] t = "MASTER"      -> 8
          [] t = "GRANDMASTER" -> 9
          [] t = "CHALLENGER"  -> 10]

(***************************************************************************)
(* Percent-decoding and -encoding of a path segment.                       *)
(***************************************************************************)
\* the escapes of the model's alphabet: %20, %23, %25
PercentTable ==
    [p \in {<<"2", "0">>, <<"2", "3">>, <<"2", "5">>} |->
        CASE p = <<"2", "0">> -> " "
          [] p = <<"2", "3">> -> "#"
          [] p = <<"2", "5">> -> "%"]

RECURSIVE decodeURIComponent(_)
\* [ok |-> FALSE] is the URIError ('URI malformed') of a '%' that no two
\* hexadecimal digits follow
decodeURIComponent(s) ==
    IF s = <<>> THEN [ok |-> TRUE, value |-> <<>>]
    ELSE IF Head(s) = "%"
         THEN IF Len(s) >= 3 /\ <<s[2], s[3]>> \in DOMAIN PercentTable
              THEN LET rest == decodeURIComponent(SubSeq(s, 4, Len(s)))
                   IN  [ok |-> rest.ok,
                        value |-> <<PercentTable[<<s[2], s[3]>>]>> \o rest.value]
              ELSE [ok |-> FALSE, value |-> <<>>]
         ELSE LET rest == decodeURIComponent(Tail(s))
              IN  [ok |-> rest.ok, value |-> <<Head(s)>> \o rest.value]

RECURSIVE encodeURIComponent(_)
encodeURIComponent(s) ==
    IF s = <<>> THEN <<>>
    ELSE (CASE Head(s) = " " -> <<"%", "2", "0">>
            [] Head(s) = "#" -> <<"%", "2", "3">>
            [] Head(s) = "%" -> <<"%", "2", "5">>
            [] OTHER -> <<Head(s)>>) \o encodeURIComponent(Tail(s))

(***************************************************************************)
(* What a handler does between two awaits: it sends a response, awaits an  *)
(* upstream call, or throws.                                               *)
(***************************************************************************)
\* res.status(status).json(body)
Respond(status, body) ==
    [kind |-> "respond", response |-> [status |-> status, body |-> body]]

\* res.status(200).end(): a response without a body
RespondEnd(status) ==
    [kind |-> "respond", response |-> [status |-> status, body |-> <<>>]]

Throw(message) == [kind |-> "throw", message |-> message]

\* fetch(url, {headers: {'X-Riot-Token': apiKey, ...}}): the URL is
\* https://<host><path>.  An inherited member in the host's place prints as
\* source text ("function Object() { [native code] }"), which is no URL:
\* fetch rejects with a TypeError before any request is sent.
Fetch(api, host, path, apiKey, keep) ==
    IF host = Inherited THEN Throw("Failed to parse URL")
    ELSE [kind |-> "await",
          call |-> [api |-> api, host |-> host, path |-> path, token |-> apiKey],
          locals |-> keep]

\* TryCatch with a fault: no catch clause, the exception leaves the handler
TryCatch_Rethrow(step) == step

\* try { ... } catch (error) { res.status(500).json(...) }
TryCatch(step) ==
    IF step.kind = "throw"
    THEN Respond(500, [success |-> FALSE, error |-> "Internal server error",
                       message |-> step.message])
    ELSE step

\* the method gate both handlers open with; `body` is the try block
MethodGate(method, body) ==
    IF method = "OPTIONS" THEN RespondEnd(200)
    ELSE IF method # "GET"
         THEN Respond(405, [success |-> FALSE, error |-> "Method not allowed"])
         ELSE TryCatch(body)

(***************************************************************************)
(* What the upstream answers to one fetch.                                 *)
(***************************************************************************)
\* the call is sent and not yet answered
Pending == [kind |-> "pending", status |-> 0, body |-> <<>>]

\* the fetch promise rejects: a network failure
Rejected == [kind |-> "reject", status |-> 0, body |-> <<>>]

\* a body and what Response.text() and Response.json() make of it:
\* parse is "object", "array", "null" (the JSON text null) or "error"
\* (json() rejects with a SyntaxError); an unreadable body fails both
Body(readable, text, parse, value) ==
    [readable |-> readable, text |-> text, parse |-> parse, value |-> value]

ErrorBodies ==
    {Body(TRUE, "{\"status\":{...}}", "object", <<>>),
     Body(FALSE, "", "error", <<>>)}

NotJsonBodies ==
    {Body(TRUE, "null", "null", <<>>),
     Body(TRUE, "<html>Bad Gateway</html>", "error", <<>>),
     Body(FALSE, "", "error", <<>>)}

\* the statuses the upstream answers with
Statuses == {200, 401, 403, 404, 500}

Replies(okBodies) ==
    {Rejected}
      \cup {[kind |-> "response", status |-> s, body |-> b] :
               s \in {x \in Statuses : x >= 200 /\ x <= 299},
               b \in okBodies \cup NotJsonBodies}
      \cup {[kind |-> "response", status |-> s, body |-> b] :
               s \in {x \in Statuses : x < 200 \/ x > 299}, b \in ErrorBodies}

AccountDto == [puuid |-> "puuid-1", gameName |-> "Hide on bush", tagLine |-> "KR1"]

SummonerDto ==
    [id |-> "summoner-1", accountId |-> "account-1", puuid |-> "puuid-1",
     summonerLevel |-> 30, profileIconId |-> 7, revisionDate |-> 1700000000]

AccountReplies == Replies({Body(TRUE, "{account}", "object", AccountDto)})

SummonerReplies == Replies({Body(TRUE, "{summoner}", "object", SummonerDto)})

(***************************************************************************)
(* api/summoner/[...params].js                                             *)
(***************************************************************************)
\* Object.keys(table); the order of the list is left out
ObjectKeys(table) == DOMAIN table

\* the response object of lines 164-186; summonerData is Null or the parsed
\* summoner object
IdentityResponse(accountData, hasSummoner, summonerData, region, server) ==
    [success |-> TRUE,
     data |-> IF hasSummoner
              THEN [puuid |-> Prop(accountData, "puuid"),
                    gameName |-> Prop(accountData, "gameName"),
                    tagLine |-> Prop(accountData, "tagLine"),
                    summonerId |-> Prop(summonerData, "id"),
                    accountId |-> Prop(summonerData, "accountId"),
                    summonerLevel |-> Prop(summonerData, "summonerLevel"),
                    profileIconId |-> Prop(summonerData, "profileIconId"),
                    revisionDate |-> Prop(summonerData, "revisionDate")]
              ELSE [puuid |-> Prop(accountData, "puuid"),
                    gameName |-> Prop(accountData, "gameName"),
                    tagLine |-> Prop(accountData, "tagLine")],
     metadata |-> [region |-> region, server |-> server,
                   timestamp |-> "<toISOString>"]]

\* the try block up to the first await (lines 21-81)
SummonerTryStart(r, apiKey) ==
    IF Len(r.params) < 2
    THEN Respond(400,
           [success |-> FALSE,
            error |-> "Invalid URL format. Expected: /api/summoner/{gameName}/{tagLine}",
            example |-> "/api/summoner/Hide%20on%20bush/KR1"])
    ELSE LET g == decodeURIComponent(r.params[1])
             t == decodeURIComponent(r.params[2])
         IN
         IF ~g.ok \/ ~t.ok THEN Throw("URI malformed")
         ELSE IF ~Truthy(apiKey)
         THEN Respond(500, [success |-> FALSE,
                            error |-> "Server configuration error",
                            message |-> "API key not found"])
         ELSE LET region == OrDefault(r.region, "asia")
                  endpoint == Lookup(regionEndpoints, region)
              IN
              IF ~Truthy(endpoint)
              THEN Respond(400, [success |-> FALSE, error |-> "Invalid region",
                                 validRegions |-> ObjectKeys(regionEndpoints)])
              ELSE Fetch("account", endpoint,
                         <<encodeURIComponent(g.value), encodeURIComponent(t.value)>>,
                         apiKey,
                         [gameName |-> g.value, tagLine |-> t.value,
                          region |-> region])

\* AccountErrorResponse with a fault: the 404 branch is missing
AccountErrorResponse_No404(o, l) ==
    IF o.status = 403
    THEN Respond(403, [success |-> FALSE, error |-> "API authentication failed",
                       message |-> "Invalid or expired API key"])
    ELSE IF ~o.body.readable THEN Throw("body stream failure")
    ELSE Respond(o.status, [success |-> FALSE, error |-> "Riot API error",
                            status |-> o.status, details |-> o.body.text])

\* the account call answered with a status that is not ok (lines 85-114)
AccountErrorResponse(o, l) ==
    IF o.status = 404
    THEN Respond(404,
           [success |-> FALSE, error |-> "Summoner not found",
            message |-> <<"No summoner found with Riot ID: ", l.gameName, "#", l.tagLine>>,
            suggestions |-> <<"Check the spelling of the game name",
                              "Verify the tag line (e.g., KR1, NA1, EUW1)",
                              "Make sure the account exists in the specified region">>])
    ELSE IF o.status = 403
    THEN Respond(403, [success |-> FALSE, error |-> "API authentication failed",
                       message |-> "Invalid or expired API key"])
    ELSE IF ~o.body.readable THEN Throw("body stream failure")
    ELSE Respond(o.status, [success |-> FALSE, error |-> "Riot API error",
                            status |-> o.status, details |-> o.body.text])

\* from the account fetch's settling to the next await or the response
\* (lines 76-161 and, with no summoner call, 164-189)
SummonerOnAccount(r, apiKey, l, o) ==
    IF o.kind = "reject" THEN Throw("fetch failed")
    ELSE IF ~ResponseOk(o.status) THEN AccountErrorResponse(o, l)
    ELSE IF o.body.parse = "error" THEN Throw("Unexpected token in JSON")
    ELSE IF o.body.parse # "object"
    THEN Throw("Cannot read properties of null (reading 'puuid')")
    ELSE LET accountData == o.body.value
             server == OrDefault(r.server, "kr")
             serverEndpoint == Lookup(serverEndpoints, server)
         IN
         IF Truthy(serverEndpoint)
         THEN Fetch("summoner", serverEndpoint, Prop(accountData, "puuid"), apiKey,
                    [gameName |-> l.gameName, tagLine |-> l.tagLine,
                     region |-> l.region, accountData |-> accountData,
                     server |-> server])
         ELSE Respond(200, IdentityResponse(accountData, FALSE, Null,
                                            l.region, server))

\* from the summoner fetch's settling to the response (lines 146-189)
SummonerOnSummoner(l, o) ==
    IF o.kind = "reject" THEN Throw("fetch failed")
    ELSE IF ResponseOk(o.status)
    THEN IF o.body.parse = "error" THEN Throw("Unexpected token in JSON")
         ELSE IF o.body.parse # "object"
         THEN Throw("Cannot read properties of null (reading 'summonerLevel')")
         ELSE Respond(200, IdentityResponse(l.accountData, TRUE, o.body.value,
                                            l.region, l.server))
    ELSE Respond(200, IdentityResponse(l.accountData, FALSE, Null,
                                       l.region, l.server))

(***************************************************************************)
(* api/rank/[puuid].js                                                     *)
(***************************************************************************)
\* getTierValue(tier) as the comparison of line 145 reads it: a number.
\* tierValues[tier] of a name the table inherits is a function, which is
\* truthy, so `|| 0` keeps it, and `>` turns it into NaN.
getTierValue(tier) ==
    IF tier \in DOMAIN tierValues THEN tierValues[tier]
    ELSE IF tier \in ObjectPrototypeMembers THEN NaN
    ELSE 0

\* a > b on numbers: false when either side is NaN
GreaterThan(a, b) == a # NaN /\ b # NaN /\ a > b

\* Math.round((wins / (wins + losses)) * 100 * 100) / 100, in hundredths of a
\* percent (70.00 is 7000): Math.round rounds a half up; 0 / 0 is NaN and
\* stays NaN
WinRate(wins, losses) ==
    IF wins + losses = 0 THEN NaN
    ELSE (2 * 10000 * wins + (wins + losses)) \div (2 * (wins + losses))

\* entry.flag || false
OrFalse(entry, name) == IF name \in DOMAIN entry THEN entry[name] ELSE FALSE

\* entry.name || null
OrNull(entry, name) == IF name \in DOMAIN entry THEN entry[name] ELSE Null

\* the callback of rankData.map (lines 118-132)
ProcessEntry(entry) ==
    [queueType |-> Prop(entry, "queueType"),
     tier |-> Prop(entry, "tier"),
     rank |-> Prop(entry, "rank"),
     leaguePoints |-> Prop(entry, "leaguePoints"),
     wins |-> entry.wins,
     losses |-> entry.losses,
     winRate |-> WinRate(entry.wins, entry.losses),
     veteran |-> OrFalse(entry, "veteran"),
     inactive |-> OrFalse(entry, "inactive"),
     freshBlood |-> OrFalse(entry, "freshBlood"),
     hotStreak |-> OrFalse(entry, "hotStreak"),
     leagueName |-> OrNull(entry, "leagueName"),
     miniSeries |-> OrNull(entry, "miniSeries")]

ProcessRanks(rankData) == [i \in 1..Len(rankData) |-> ProcessEntry(rankData[i])]

RECURSIVE Reduce(_, _)
\* processedRanks.reduce(callback) without an initial value: `highest`
\* starts as the first entry and `rest` are the entries after it
Reduce(highest, rest) ==
    IF rest = <<>> THEN highest
    ELSE Reduce(
           IF GreaterThan(getTierValue(Head(rest).tier), getTierValue(highest.tier))
           THEN Head(rest) ELSE highest,
           Tail(rest))

\* summary.highestTier (lines 143-146)
HighestTier(processedRanks) ==
    IF Len(processedRanks) > 0
    THEN Reduce(processedRanks[1], Tail(processedRanks)).tier
    ELSE Null

\* the response object of lines 134-153
RankResponse(puuid, summonerData, rankData, server) ==
    LET processedRanks == ProcessRanks(rankData)
    IN  [success |-> TRUE,
         data |-> [puuid |-> puuid,
                   summonerId |-> Prop(summonerData, "id"),
                   summonerLevel |-> Prop(summonerData, "summonerLevel"),
                   ranks |-> processedRanks,
                   summary |-> [totalRankedQueues |-> Len(processedRanks),
                                highestTier |-> HighestTier(processedRanks)]],
         metadata |-> [server |-> server, timestamp |-> "<toISOString>"]]

\* the try block up to the first await (lines 19-74)
RankTryStart(r, apiKey) ==
    IF ~Truthy(r.puuid)
    THEN Respond(400, [success |-> FALSE, error |-> "PUUID is required",
                       example |-> "/api/rank/{puuid}?server=kr"])
    ELSE IF ~Truthy(apiKey)
    THEN Respond(500, [success |-> FALSE, error |-> "API key not configured"])
    ELSE LET server == OrDefault(r.server, "kr")
             endpoint == Lookup(serverEndpoints, server)
         IN
         IF ~Truthy(endpoint)
         THEN Respond(400, [success |-> FALSE, error |-> "Invalid server",
                            validServers |-> ObjectKeys(serverEndpoints)])
         ELSE Fetch("summoner", endpoint, r.puuid, apiKey,
                    [server |-> server, endpoint |-> endpoint])

\* the summoner call answered with a status that is not ok (lines 76-90)
RankSummonerError(o, l) ==
    IF o.status = 404
    THEN Respond(404, [success |-> FALSE,
                       error |-> "Summoner not found on this server",
                       message |-> <<"No summoner found with PUUID on ", l.server, " server">>])
    ELSE Respond(o.status, [success |-> FALSE,
                            error |-> "Failed to get summoner info",
                            status |-> o.status])

\* from the summoner fetch's settling to the league fetch (lines 69-104)
RankOnSummoner(apiKey, l, o) ==
    IF o.kind = "reject" THEN Throw("fetch failed")
    ELSE IF ~ResponseOk(o.status) THEN RankSummonerError(o, l)
    ELSE IF o.body.parse = "error" THEN Throw("Unexpected token in JSON")
    ELSE IF o.body.parse # "object"
    THEN Throw("Cannot read properties of null (reading 'id')")
    ELSE Fetch("league", l.endpoint, Prop(o.body.value, "id"), apiKey,
               [server |-> l.server, endpoint |-> l.endpoint,
                summonerData |-> o.body.value])

\* the league call answered with a status that is not ok (lines 106-112)
RankLeagueError(o) ==
    Respond(o.status, [success |-> FALSE, error |-> "Failed to get rank info",
                       status |-> o.status])

\* from the league fetch's settling to the response (lines 99-156)
RankOnLeague(r, l, o) ==
    IF o.kind = "reject" THEN Throw("fetch failed")
    ELSE IF ~ResponseOk(o.status) THEN RankLeagueError(o)
    ELSE IF o.body.parse = "error" THEN Throw("Unexpected token in JSON")
    ELSE IF o.body.parse = "null"
    THEN Throw("Cannot read properties of null (reading 'length')")
    ELSE IF o.body.parse # "array" THEN Throw("rankData.map is not a function")
    ELSE Respond(200, RankResponse(r.puuid, l.summonerData, o.body.value, l.server))

(***************************************************************************)
(* Requests and upstream answers of the model.                             *)
(***************************************************************************)
Methods == {"GET", "OPTIONS", "POST"}

\* raw path segments: "H", "H%20", and the malformed "%" and "%2H"
RawSegments ==
    {<<"H">>, <<"H", "%", "2", "0">>, <<"%">>, <<"%", "2", "H">>}

ParamLists == UNION {[1..n -> RawSegments] : n \in 0..MaxParams}

RegionInputs ==
    {Undefined, "", "americas", "asia", "europe", "sea",
     "ASIA", "mars", "constructor", "toString"}

ServerInputs ==
    {Undefined, "", "kr", "jp1", "na1", "br1", "lan", "las", "oc1", "euw1",
     "eun1", "tr1", "ru", "KR", "moon", "constructor"}

\* process.env.RIOT_API_KEY
ApiKeys == {Undefined, "", "RGAPI-key"}

IdentityRequests ==
    [method : Methods, params : ParamLists, region : RegionInputs,
     server : ServerInputs, puuid : {Undefined}]

RankRequests ==
    [method : Methods, params : {<<>>}, region : {Undefined},
     server : ServerInputs, puuid : {Undefined, "", "puuid-1"}]

LeagueEntry(queueType, tier, wins, losses) ==
    [queueType |-> queueType, tier |-> tier, rank |-> "II", leaguePoints |-> 40,
     wins |-> wins, losses |-> losses, leagueName |-> "Sona's Zealots"]

\* the league entries the upstream answers with: every tier of interest in
\* one queue, and a second queue over a range of win and loss counts
LeagueEntries ==
    {LeagueEntry("RANKED_SOLO_5x5", t, 7, 3) :
        t \in {"SILVER", "GOLD", "DIAMOND", "WOOD", "constructor"}}
      \cup {[queueType |-> "RANKED_SOLO_5x5", rank |-> "II", leaguePoints |-> 40,
             wins |-> 7, losses |-> 3, hotStreak |-> TRUE]}
      \cup {LeagueEntry("RANKED_FLEX_SR", "GOLD", w, l) :
              <<w, l>> \in {<<0, 0>>, <<1, 2>>, <<0, 5>>}}

LeagueLists == UNION {[1..n -> LeagueEntries] : n \in 0..MaxEntries}

LeagueReplies ==
    Replies({Body(TRUE, "[entries]", "array", rankData) : rankData \in LeagueLists}
              \cup {Body(TRUE, "{}", "object", <<>>)})

(***************************************************************************)
(* The state machine.                                                      *)
(***************************************************************************)
Init ==
    /\ pc = "idle"
    /\ flow = "none"
    /\ req = <<>>
    /\ env \in ApiKeys
    /\ locals = <<>>
    /\ calls = <<>>
    /\ responses = <<>>
    /\ unhandled = FALSE

\* the pending call takes its answer
Settle(o) == [calls EXCEPT ![Len(calls)].outcome = o]

\* the effect of one stretch of a handler: `sent` are the calls so far
Apply(step, sent) ==
    /\ pc' = IF step.kind = "await" THEN "await" ELSE "done"
    /\ responses' = IF step.kind = "respond"
                    THEN Append(responses, step.response) ELSE responses
    /\ calls' = IF step.kind = "await"
                THEN Append(sent, [api |-> step.call.api, host |-> step.call.host,
                                   path |-> step.call.path,
                                   token |-> step.call.token,
                                   outcome |-> Pending])
                ELSE sent
    /\ locals' = IF step.kind = "await" THEN step.locals ELSE locals
    /\ unhandled' = (unhandled \/ step.kind = "throw")

Awaiting(f, api) ==
    /\ pc = "await"
    /\ flow = f
    /\ calls[Len(calls)].api = api

\* api/summoner/[...params].js: a request arrives (lines 1-81)
SummonerHandler ==
    /\ pc = "idle"
    /\ \E r \in IdentityRequests :
          /\ flow' = "identity"
          /\ req' = r
          /\ Apply(MethodGate(r.method, SummonerTryStart(r, env)), calls)
    /\ UNCHANGED env

\* await fetch(accountUrl) settles (lines 76-161)
AccountSettled ==
    /\ Awaiting("identity", "account")
    /\ \E o \in AccountReplies :
          Apply(TryCatch(SummonerOnAccount(req, env, locals, o)), Settle(o))
    /\ UNCHANGED <<flow, req, env>>

\* await fetch(summonerUrl) settles (lines 146-189)
SummonerSettled ==
    /\ Awaiting("identity", "summoner")
    /\ \E o \in SummonerReplies :
          Apply(TryCatch(SummonerOnSummoner(locals, o)), Settle(o))
    /\ UNCHANGED <<flow, req, env>>

\* api/rank/[puuid].js: a request arrives (lines 1-74)
RankHandler ==
    /\ pc = "idle"
    /\ \E r \in RankRequests :
          /\ flow' = "rank"
          /\ req' = r
          /\ Apply(MethodGate(r.method, RankTryStart(r, env)), calls)
    /\ UNCHANGED env

\* await fetch(summonerUrl) settles (lines 69-104)
RankSummonerSettled ==
    /\ Awaiting("rank", "summoner")
    /\ \E o \in SummonerReplies :
          Apply(TryCatch(RankOnSummoner(env, locals, o)), Settle(o))
    /\ UNCHANGED <<flow, req, env>>

\* await fetch(rankUrl) settles (lines 99-156)
RankLeagueSettled ==
    /\ Awaiting("rank", "league")
    /\ \E o \in LeagueReplies :
          Apply(TryCatch(RankOnLeague(req, locals, o)), Settle(o))
    /\ UNCHANGED <<flow, req, env>>

Next ==
    \/ SummonerHandler
    \/ AccountSettled
    \/ SummonerSettled
    \/ RankHandler
    \/ RankSummonerSettled
    \/ RankLeagueSettled

Spec == Init /\ [][Next]_vars

(***************************************************************************)
(* Vocabulary of the properties.                                           *)
(***************************************************************************)
Done == pc = "done"

\* a value the caller or the process supplied: neither missing nor empty
Present(v) == v # Undefined /\ v # ""

KeyOr(v, d) == IF Present(v) THEN v ELSE d

Is2xx(status) == status \in 200..299

\* the upstream answered the call with a 2xx status
Answered2xx(call) ==
    call.outcome.kind = "response" /\ Is2xx(call.outcome.status)

\* the upstream call returned a parsed JSON object
Succeeded(call) == Answered2xx(call) /\ call.outcome.body.parse = "object"

CallsTo(api) == {i \in 1..Len(calls) : calls[i].api = api}

LastCall == calls[Len(calls)]

SummonerFields ==
    {"summonerId", "accountId", "summonerLevel", "profileIconId", "revisionDate"}

RegionKeys == {"americas", "asia", "europe", "sea"}

ServerKeys ==
    {"kr", "jp1", "na1", "br1", "lan", "las", "oc1", "euw1", "eun1", "tr1", "ru"}

\* the request passes the method gate and the input and credential checks
IdentityInputsOk ==
    /\ req.method = "GET"
    /\ Len(req.params) >= 2
    /\ decodeURIComponent(req.params[1]).ok
    /\ decodeURIComponent(req.params[2]).ok
    /\ Present(env)

RankInputsOk == req.method = "GET" /\ Present(req.puuid) /\ Present(env)

\* the Rank request ended with its success envelope
RankSucceeded ==
    /\ flow = "rank" /\ Done /\ req.method = "GET"
    /\ Len(responses) = 1 /\ responses[1].status = 200

InternalError(response) ==
    /\ response.status = 500
    /\ response.body.success = FALSE
    /\ response.body.error = "Internal server error"
    /\ "message" \in DOMAIN response.body

(***************************************************************************)
(* C1. Identity Flow, soft fail.                                           *)
(***************************************************************************)
\* C1: an Identity request whose account call succeeded and whose summoner
\* lookup produced no summoner object (server key not in the table, summoner
\* call not answered 2xx, rejected, or answered with a body that is no JSON
\* object) ends with status 200, success:true, puuid/gameName/tagLine and
\* none of the summoner fields.
C1_IdentitySoftFail ==
    (/\ flow = "identity" /\ Done /\ IdentityInputsOk
     /\ calls # <<>> /\ Succeeded(calls[1])
     /\ \A i \in CallsTo("summoner") : ~Succeeded(calls[i]))
      => /\ Len(responses) = 1
         /\ responses[1].status = 200
         /\ responses[1].body.success = TRUE
         /\ {"puuid", "gameName", "tagLine"} \subseteq DOMAIN responses[1].body.data
         /\ DOMAIN responses[1].body.data \cap SummonerFields = {}

(***************************************************************************)
(* C2. Rank Flow, hard fail.                                               *)
(***************************************************************************)
\* C2: in the Rank Flow the league (rank-by-summoner) call is issued only
\* right after the summoner call was answered with a 2xx status and a JSON
\* object; and when the summoner call was rejected, answered with any other
\* status or with a body that is no JSON object, the request ends with
\* success:false and no league call.
C2_RankHardFail ==
    flow = "rank" =>
      /\ \A i \in CallsTo("league") :
            i = 2 /\ calls[1].api = "summoner" /\ Succeeded(calls[1])
      /\ (Done /\ calls # <<>> /\ ~Succeeded(calls[1])) =>
            /\ Len(responses) = 1
            /\ responses[1].body.success = FALSE
            /\ CallsTo("league") = {}

\* a Rank request whose summoner call was answered 500 and that ended in a
\* failure envelope
C2_Witness ==
    /\ flow = "rank" /\ Done /\ Len(calls) = 1
    /\ calls[1].outcome.kind = "response" /\ calls[1].outcome.status = 500
    /\ Len(responses) = 1 /\ responses[1].body.success = FALSE

(***************************************************************************)
(* C3. DerivedWinRate.                                                     *)
(***************************************************************************)
\* C3: in every successful Rank response each entry's winRate (in hundredths
\* of a percent) is 0 when wins + losses = 0, and otherwise is
\* 100 * wins / (wins + losses) rounded to two decimal places.
C3_WinRateGuarded ==
    RankSucceeded =>
       \A i \in 1..Len(responses[1].body.data.ranks) :
          LET e == responses[1].body.data.ranks[i]
              games == e.wins + e.losses
          IN  /\ games = 0 => e.winRate = 0
              /\ games > 0 =>
                   /\ 2 * games * e.winRate - 20000 * e.wins <= games
                   /\ 20000 * e.wins - 2 * games * e.winRate <= games

(***************************************************************************)
(* C4. highestTier.                                                        *)
(***************************************************************************)
\* the Tier Ordinal Table: IRON = 1 ... CHALLENGER = 10, anything else 0
TierOrdinal(tier) == IF tier \in DOMAIN tierValues THEN tierValues[tier] ELSE 0

\* C4: in every successful Rank response totalRankedQueues is the number of
\* entries; highestTier is null for no entries, and otherwise the tier of the
\* first entry whose ordinal is the maximum over the list.
C4_HighestTierIsFirstMaximum ==
    RankSucceeded =>
       LET ranks == responses[1].body.data.ranks
           summary == responses[1].body.data.summary
       IN  /\ summary.totalRankedQueues = Len(ranks)
           /\ Len(ranks) = Len(LastCall.outcome.body.value)
           /\ Len(ranks) = 0 => summary.highestTier = Null
           /\ Len(ranks) > 0 =>
                \E i \in 1..Len(ranks) :
                   /\ \A j \in 1..Len(ranks) :
                         TierOrdinal(ranks[j].tier) <= TierOrdinal(ranks[i].tier)
                   /\ \A j \in 1..(i - 1) :
                         TierOrdinal(ranks[j].tier) < TierOrdinal(ranks[i].tier)
                   /\ summary.highestTier = ranks[i].tier

(***************************************************************************)
(* C5. Topology keys.                                                      *)
(***************************************************************************)
\* C5: with the inputs and the credential in place, a region key of the table
\* sends the account call to a non-empty host, and every other supplied
\* region key ends the request with 400 'Invalid region', validRegions being
\* the four keys, and no upstream call; the same for the Rank Flow's server
\* key, 'Invalid server' and validServers.
C5_ExactMatchKeys ==
    /\ (flow = "identity" /\ IdentityInputsOk /\ Present(req.region)) =>
          IF req.region \in RegionKeys
          THEN calls # <<>> /\ calls[1].api = "account" /\ calls[1].host # ""
          ELSE /\ Done /\ calls = <<>> /\ Len(responses) = 1
               /\ responses[1].status = 400
               /\ responses[1].body.error = "Invalid region"
               /\ responses[1].body.validRegions = RegionKeys
    /\ (flow = "rank" /\ RankInputsOk /\ Present(req.server)) =>
          IF req.server \in ServerKeys
          THEN calls # <<>> /\ calls[1].api = "summoner" /\ calls[1].host # ""
          ELSE /\ Done /\ calls = <<>> /\ Len(responses) = 1
               /\ responses[1].status = 400
               /\ responses[1].body.error = "Invalid server"
               /\ responses[1].body.validServers = ServerKeys

(***************************************************************************)
(* C6. Pre-flight errors precede all upstream traffic.                     *)
(***************************************************************************)
MissingInputErrors ==
    {"Invalid URL format. Expected: /api/summoner/{gameName}/{tagLine}",
     "PUUID is required"}

CredentialMissingErrors == {"Server configuration error", "API key not configured"}

InvalidTopologyKeyErrors == {"Invalid region", "Invalid server"}

\* C6: a response that reports a missing input, a missing credential or an
\* invalid region/server is sent with no upstream call issued; an upstream
\* call is issued only with the inputs present, the credential set and the
\* host it goes to resolved from the table; a request that issued an upstream
\* call never ends with a missing-credential error string, and a request with
\* good inputs and no credential always does.
C6_PreflightBeforeUpstream ==
    /\ (Done /\ Len(responses) = 1 /\ "error" \in DOMAIN responses[1].body
          /\ responses[1].body.error \in
               MissingInputErrors \cup CredentialMissingErrors
                 \cup InvalidTopologyKeyErrors)
         => calls = <<>>
    /\ (flow = "identity" /\ calls # <<>>) =>
          /\ req.method = "GET" /\ Len(req.params) >= 2 /\ Present(env)
          /\ KeyOr(req.region, "asia") \in RegionKeys
          /\ calls[1].api = "account"
          /\ calls[1].host = regionEndpoints[KeyOr(req.region, "asia")]
          /\ \A i \in CallsTo("summoner") :
                /\ KeyOr(req.server, "kr") \in ServerKeys
                /\ calls[i].host = serverEndpoints[KeyOr(req.server, "kr")]
    /\ (flow = "rank" /\ calls # <<>>) =>
          /\ req.method = "GET" /\ Present(req.puuid) /\ Present(env)
          /\ KeyOr(req.server, "kr") \in ServerKeys
          /\ \A i \in 1..Len(calls) :
                calls[i].host = serverEndpoints[KeyOr(req.server, "kr")]
    /\ \A i \in 1..Len(calls) : calls[i].token = env /\ Present(calls[i].token)
    /\ (Done /\ calls # <<>>) =>
          \A i \in 1..Len(responses) :
             "error" \in DOMAIN responses[i].body =>
                responses[i].body.error \notin CredentialMissingErrors
    /\ (Done /\ ~Present(env)
          /\ \/ flow = "identity" /\ req.method = "GET" /\ Len(req.params) >= 2
                  /\ decodeURIComponent(req.params[1]).ok
                  /\ decodeURIComponent(req.params[2]).ok
             \/ flow = "rank" /\ req.method = "GET" /\ Present(req.puuid))
         => /\ Len(responses) = 1
            /\ responses[1].status = 500
            /\ responses[1].body.error \in CredentialMissingErrors

\* an Identity request with well-formed inputs and no RIOT_API_KEY, answered
\* with the configuration error and no upstream call
C6_Witness ==
    /\ flow = "identity" /\ Done /\ env = Undefined
    /\ Len(responses) = 1
    /\ "error" \in DOMAIN responses[1].body
    /\ responses[1].body.error = "Server configuration error"
    /\ calls = <<>>

(***************************************************************************)
(* C7. Identity Flow, translation of the account call's failure.           *)
(***************************************************************************)
\* C7: when the account call is answered with a non-2xx status (and a
\* readable body), 404 gives 'Summoner not found' with the three suggestions,
\* 403 and 401 give 'API authentication failed', and every other status gives
\* 'Riot API error' with the upstream's status and body.
C7_AccountErrorTranslation ==
    (/\ flow = "identity" /\ Done /\ Len(calls) = 1
     /\ calls[1].outcome.kind = "response" /\ ~Is2xx(calls[1].outcome.status)
     /\ calls[1].outcome.body.readable)
      => LET status == calls[1].outcome.status
             body == responses[1].body
         IN  /\ Len(responses) = 1
             /\ body.success = FALSE
             /\ status = 404 =>
                  body.error = "Summoner not found" /\ Len(body.suggestions) = 3
             /\ status \in {401, 403} => body.error = "API authentication failed"
             /\ status \notin {401, 403, 404} =>
                  /\ body.error = "Riot API error"
                  /\ body.status = status
                  /\ body.details = calls[1].outcome.body.text
                  /\ responses[1].status = status

(***************************************************************************)
(* C8. Identity Flow, short circuit.                                       *)
(***************************************************************************)
\* C8: in the Identity Flow the summoner call is issued only after the
\* account call was answered 2xx with a JSON object; a request whose account
\* call was rejected or answered otherwise ends with success:false, no data
\* (so no summoner fields) and no summoner call, a 404 giving status 404 and 'Summoner not
\* found'; and a success:true response carries the puuid, gameName and
\* tagLine of a 2xx account answer.
C8_IdentityShortCircuit ==
    flow = "identity" =>
      /\ \A i \in CallsTo("summoner") :
            i = 2 /\ calls[1].api = "account" /\ Succeeded(calls[1])
      /\ (Done /\ calls # <<>> /\ ~Succeeded(calls[1])) =>
            /\ Len(responses) = 1
            /\ responses[1].body.success = FALSE
            /\ "data" \notin DOMAIN responses[1].body
            /\ DOMAIN responses[1].body \cap SummonerFields = {}
            /\ CallsTo("summoner") = {}
            /\ (calls[1].outcome.kind = "response"
                  /\ calls[1].outcome.status = 404) =>
                 /\ responses[1].status = 404
                 /\ responses[1].body.error = "Summoner not found"
      /\ \A k \in 1..Len(responses) :
            ("success" \in DOMAIN responses[k].body
               /\ responses[k].body.success = TRUE) =>
              /\ calls # <<>> /\ Succeeded(calls[1])
              /\ responses[k].body.data.puuid = calls[1].outcome.body.value.puuid
              /\ responses[k].body.data.gameName = calls[1].outcome.body.value.gameName
              /\ responses[k].body.data.tagLine = calls[1].outcome.body.value.tagLine

\* an Identity request whose account call was answered 404 and that ended
\* with 'Summoner not found'
C8_Witness ==
    /\ flow = "identity" /\ Done /\ Len(calls) = 1
    /\ calls[1].outcome.kind = "response" /\ calls[1].outcome.status = 404
    /\ Len(responses) = 1
    /\ responses[1].body.success = FALSE
    /\ responses[1].body.error = "Summoner not found"

(***************************************************************************)
(* C9. Rank Flow, translation of upstream failures.                        *)
(***************************************************************************)
\* the adapter's classification of an answer that is no Success
OutcomeKind(o) ==
    IF o.kind = "reject" THEN "TransportFailure"
    ELSE IF Is2xx(o.status) THEN "TransportFailure"
    ELSE IF o.status = 404 THEN "NotFound"
    ELSE IF o.status \in {401, 403} THEN "AuthFailure"
    ELSE "UpstreamError"

NoSuccess(o) ==
    o.kind = "reject" \/ ~Is2xx(o.status) \/ o.body.parse \in {"error", "null"}

\* the error string the Rank Flow would answer with, had the pending call
\* been answered with o
RankErrorFor(api, o) ==
    IF api = "summoner"
    THEN TryCatch(RankOnSummoner(env, locals, o)).response.body.error
    ELSE TryCatch(RankOnLeague(req, locals, o)).response.body.error

\* C9: when a Rank request ends on an upstream answer that is no Success, its
\* error string is one no answer of another kind to the same call would have
\* produced, and an UpstreamError carries the upstream's status.
C9_RankErrorKindsDistinct ==
    (flow = "rank" /\ Done /\ calls # <<>> /\ NoSuccess(LastCall.outcome)) =>
       /\ Len(responses) = 1
       /\ responses[1].body.success = FALSE
       /\ \A o \in (IF LastCall.api = "summoner"
                    THEN SummonerReplies ELSE {Rejected}
                           \cup {x \in SummonerReplies : ~Is2xx(x.status)}) :
             (NoSuccess(o) /\ OutcomeKind(o) # OutcomeKind(LastCall.outcome)) =>
                RankErrorFor(LastCall.api, o) # responses[1].body.error

(***************************************************************************)
(* C10. One response per request, no exception escapes.                    *)
(***************************************************************************)
\* the request raised an exception inside the try block
Raised ==
    \/ /\ flow = "identity" /\ req.method = "GET" /\ Len(req.params) >= 2
       /\ calls = <<>>
       /\ \/ ~decodeURIComponent(req.params[1]).ok
          \/ ~decodeURIComponent(req.params[2]).ok
    \/ /\ calls # <<>>
       /\ \/ LastCall.outcome.kind = "reject"
          \/ /\ Answered2xx(LastCall)
             /\ LastCall.outcome.body.parse \in {"error", "null"}
          \/ /\ Answered2xx(LastCall) /\ LastCall.api = "league"
             /\ LastCall.outcome.body.parse # "array"

\* C10: no exception leaves a handler; a request that is not finished has sent
\* nothing and a finished one has sent exactly one response; behind the method
\* gate that response is an envelope, success:true with status 200 or
\* success:false with an error string and another status; and an exception
\* raised in the try block ends the request with 500 'Internal server error'
\* and the exception's message.
C10_OneEnvelopePerRequest ==
    /\ unhandled = FALSE
    /\ Len(responses) = (IF Done THEN 1 ELSE 0)
    /\ (Done /\ req.method = "GET") =>
          /\ "success" \in DOMAIN responses[1].body
          /\ responses[1].body.success = TRUE =>
                responses[1].status = 200 /\ "data" \in DOMAIN responses[1].body
          /\ responses[1].body.success = FALSE =>
                responses[1].status # 200 /\ "error" \in DOMAIN responses[1].body
    /\ (Done /\ Raised) => InternalError(responses[1])

\* an Identity request with malformed percent-encoding, answered 500
\* 'Internal server error'
C10_Witness ==
    /\ flow = "identity" /\ Done /\ req.method = "GET" /\ Len(req.params) >= 2
    /\ ~decodeURIComponent(req.params[1]).ok
    /\ Len(responses) = 1 /\ InternalError(responses[1])
    /\ responses[1].body.message = "URI malformed"

====
